---- MODULE Spec2Model ----
(***************************************************************************)
(* Model of hooks/tk-multi-shotgunpanel/unity_actions.py: the UnityActions *)
(* hook.  generate_actions (the action enumerator) extends the base hook's *)
(* list of action descriptors with a "jump_to_frame" descriptor when the   *)
(* entity is eligible; execute_action (the action executor) opens a scene  *)
(* in the host editor and scrubs the tagged PlayableDirector to            *)
(* frame_number / fps.                                                     *)
(*                                                                         *)
(* The host calls both hooks synchronously on one thread: a call of        *)
(* generate_actions is one action; a call of execute_action is a sequence  *)
(* of steps, one per host-editor call, so that the order of the calls and  *)
(* the place where a failure is raised are visible.  The parameters the    *)
(* executor receives are those of a descriptor the enumerator returned.    *)
(* The app.logger.debug lines that open both hooks change nothing the      *)
(* hooks or the host read and are left out; app.logger.error is kept.      *)
(***************************************************************************)
EXTENDS Integers, Sequences, FiniteSets, TLC

VARIABLES
    \* ---- the last call of generate_actions: its arguments and environment
    sg_data,         \* the entity record passed in (as it is after the call)
    sg_given,        \* the entity record as it was passed
    actions,         \* the requested action names (as they are after the call)
    actions_given,   \* the requested action names as they were passed
    ui_area,         \* "main" or "details"
    settings,        \* app.settings.get('main_timeline_tag')
    resolved,        \* the mapping get_metadata_from_entity returns, as returned
    metadata,        \* that same mapping object after the call
    relProject,      \* answer of relates_to_current_project
    relScene,        \* answer of relates_to_existing_scene
    baseResult,      \* what the base class's generate_actions returned
    action_instances,\* what generate_actions returned
    resolverCalls,   \* the unity_metadata functions called, in order
    \* ---- the running call of execute_action
    pc,              \* position: "NoMenu", or where the executor stands
    name,            \* argument: the action name
    params,          \* argument: the descriptor's params
    frame_number,    \* local: int(metadata['frame_number'])
    game_objects,    \* local: result of FindGameObjectsWithTag
    main_director,   \* local: 0 for None, else the index of its game object
    timeline,        \* local: main_director.playableAsset was read as assigned
    fps,             \* local: timeline.editorSettings.fps
    openedScene,     \* host: the scene path OpenScene was last given
    activeObject,    \* host: UnityEditor.Selection.activeObject (0: unchanged)
    directorTime,    \* host: main director's time, a fraction <<num, den>>
    hostCalls,       \* host-editor calls made during this call, in order
    errors,          \* app.logger.error messages of this call, in order
    baseExecuted,    \* calls of the base class's execute_action
    failed,          \* the call or operation that raised during this call ("": none)
    raised,          \* the one whose exception left execute_action ("": none)
    path             \* the positions this call went through, in order

vars == << sg_data, sg_given, actions, actions_given, ui_area, settings,
           resolved, metadata, relProject, relScene, baseResult,
           action_instances, resolverCalls,
           pc, name, params, frame_number, game_objects,
           main_director, timeline, fps, openedScene, activeObject,
           directorTime, hostCalls, errors, baseExecuted, failed, raised, path >>

genVars == << sg_data, sg_given, actions, actions_given, ui_area, settings,
              resolved, metadata, relProject, relScene, baseResult,
              action_instances, resolverCalls >>

(***************************************************************************)
(* Bounds of the model.                                                    *)
(***************************************************************************)
MaxBase == 2       \* descriptors the base enumerator returns, at most
MaxObjects == 2    \* game objects carrying the main timeline tag, at most

(***************************************************************************)
(* Python values.  A value is None, an int or a str; a str is the sequence *)
(* of its characters.                                                      *)
(***************************************************************************)
PyNone == [t |-> "none", n |-> 0, s |-> <<>>]
PyInt(i) == [t |-> "int", n |-> i, s |-> <<>>]
PyStr(cs) == [t |-> "str", n |-> 0, s |-> cs]

\* Python truthiness of a value: None, 0 and "" are falsy.
Truthy(v) ==
    CASE v.t = "none" -> FALSE
      [] v.t = "int"  -> v.n # 0
      [] v.t = "str"  -> v.s # <<>>

\* A dict is a function from its keys; {} is the function of empty domain.
EmptyDict == [k \in {} |-> PyNone]

\* dict.get(key): the value, or None when the key is absent.
Get(d, key) == IF key \in DOMAIN d THEN d[key] ELSE PyNone

\* dict.setdefault in place of the assignment: an existing key keeps its value.
SetDefault(d, key, v) ==
    [k \in (DOMAIN d) \cup {key} |-> IF k \in DOMAIN d THEN d[k] ELSE v]

\* A fresh dict holding the key alone in place of the dict with the key set.
ReplaceWith(d, key, v) == [k \in {key} |-> v]

\* d[key] = v: the dict after the assignment (the key is added or overwritten).
SetItem(d, key, v) ==
    [k \in (DOMAIN d) \cup {key} |-> IF k = key THEN v ELSE d[k]]

(***************************************************************************)
(* The inputs of generate_actions.                                         *)
(***************************************************************************)
TagMain == PyStr(<<"M", "a", "i", "n">>)
TagOld == PyStr(<<"O", "l", "d">>)
ScenePath == PyStr(<<"A", ".", "u", "n", "i", "t", "y">>)

\* Values the resolver may store under frame_number.
FrameValues ==
    { PyNone, PyInt(0), PyInt(30), PyInt(48),
      PyStr(<<>>), PyStr(<<"4", "8">>), PyStr(<<"a", "b", "c">>) }

\* Values of the main_timeline_tag setting: unset, empty, a tag name.
SettingValues == { PyNone, PyStr(<<>>), TagMain }

MetadataKeys == { "scene_path", "frame_number", "main_timeline_tag" }

KeyValues(key) ==
    CASE key = "scene_path" -> { ScenePath }
      [] key = "frame_number" -> FrameValues
      [] key = "main_timeline_tag" -> { TagOld }

\* The dicts the resolver may return: any subset of the keys, {} included.
MetadataDicts ==
    UNION { { d \in [K -> FrameValues \cup { ScenePath, TagOld }] :
                \A k \in K : d[k] \in KeyValues(k) } : K \in SUBSET MetadataKeys }

\* What get_metadata_from_entity returns: None or a dict.
MetadataResults ==
    { [none |-> TRUE, d |-> EmptyDict] } \cup
    { [none |-> FALSE, d |-> d] : d \in MetadataDicts }

ActionLists ==
    { <<>>, <<"jump_to_frame">>, <<"add_to_playlist">>,
      <<"add_to_playlist", "jump_to_frame">> }

Entities == { [type |-> "Version", id |-> 1] }

\* A descriptor of the base hook.
BaseDescriptor ==
    [ name |-> "add_to_playlist", params |-> [k \in {"playlist"} |-> PyInt(7)],
      group |-> "Playlist",
      caption |-> "Add to playlist", description |-> "" ]

RECURSIVE Repeat(_, _)
Repeat(x, n) == IF n = 0 THEN <<>> ELSE Append(Repeat(x, n - 1), x)

BaseResults == { Repeat(BaseDescriptor, n) : n \in 0..MaxBase }

(***************************************************************************)
(* generate_actions                                                        *)
(***************************************************************************)
\* The membership test taken for a test that any action was requested.
RequestedAnything(acts) == acts # <<>>

\* "jump_to_frame" in actions
Requested(acts) == \E i \in 1..Len(acts) : acts[i] = "jump_to_frame"

\* not metadata: None and {} are falsy
MetadataFound(m) == ~m.none /\ DOMAIN m.d # {}

\* The truthiness test taken for a test that the key is present.
HasFrameNumberKey(d) == "frame_number" \in DOMAIN d

\* metadata.get('frame_number') is truthy
HasFrameNumber(d) == Truthy(Get(d, "frame_number"))

\* the dict appended to action_instances
JumpDescriptor(md) ==
    [ name |-> "jump_to_frame", params |-> md, group |-> "Jump to Frame",
      caption |-> "Jump to Frame",
      description |-> "Opens the associated Unity scene and scrubs to the associated frame." ]

\* A return of generate_actions: the list returned, the resolver functions
\* called so far, and the resolver's mapping object as the call leaves it.
Return(instances, calls, m) == [ret |-> instances, calls |-> calls, meta |-> m]

\* The call: base is the base class's list, tag the configured setting, m the
\* resolver's result, rp and rs the answers of the two relates_to checks.
generate_actions(acts, base, tag, m, rp, rs) ==
    LET get == <<"get_metadata_from_entity">>
        proj == Append(get, "relates_to_current_project")
        scn == Append(proj, "relates_to_existing_scene")
        tagged == SetItem(m.d, "main_timeline_tag", tag)
    IN  IF ~Requested(acts) THEN Return(base, <<>>, m)
        ELSE IF ~Truthy(tag) THEN Return(base, <<>>, m)
        ELSE IF ~MetadataFound(m) THEN Return(base, get, m)
        ELSE IF ~rp THEN Return(base, proj, m)
        ELSE IF ~rs THEN Return(base, scn, m)
        ELSE IF ~HasFrameNumber(m.d) THEN Return(base, scn, m)
        ELSE Return(Append(base, JumpDescriptor(tagged)), scn,
                    [none |-> FALSE, d |-> tagged])

\* The panel builds the menu of an entity: it calls generate_actions with any
\* entity, requested names, ui area, configuration and resolver answers. The
\* executor is then idle until the user chooses one of the actions returned.
GenerateActions ==
    /\ pc = "NoMenu"
    /\ pc' = "Idle"
    /\ path' = <<"Idle">>
    /\ \E sg \in Entities, acts \in ActionLists, ui \in {"main", "details"},
          base \in BaseResults, tag \in SettingValues, m \in MetadataResults,
          rp \in BOOLEAN, rs \in BOOLEAN :
          LET r == generate_actions(acts, base, tag, m, rp, rs)
          IN  /\ sg_given' = sg
              /\ sg_data' = sg
              /\ actions_given' = acts
              /\ actions' = acts
              /\ ui_area' = ui
              /\ settings' = tag
              /\ resolved' = m
              /\ metadata' = r.meta
              /\ relProject' = rp
              /\ relScene' = rs
              /\ baseResult' = base
              /\ action_instances' = r.ret
              /\ resolverCalls' = r.calls
    /\ UNCHANGED << name, params, frame_number, game_objects, main_director,
                    timeline, fps, openedScene, activeObject, directorTime,
                    hostCalls, errors, baseExecuted, failed, raised >>

(***************************************************************************)
(* The host scene execute_action works on.                                 *)
(***************************************************************************)
\* The playback time a director has before the action runs.
InitialTime == <<7, 2>>

\* A game object carrying the tag: its name, whether it has a
\* PlayableDirector component, whether that director has a playable asset
\* assigned, the asset's editorSettings.fps (a float; whole values here) and
\* the director's time.
GameObject(nm, dir, asset, f) ==
    [name |-> nm, director |-> dir, asset |-> asset, fps |-> f, time |-> InitialTime]

GameObjects ==
    { GameObject(PyStr(<<"P">>), FALSE, FALSE, 0),
      GameObject(PyStr(<<"D">>), TRUE, FALSE, 0),
      GameObject(PyStr(<<"Z">>), TRUE, TRUE, 0),
      GameObject(PyStr(<<"T">>), TRUE, TRUE, 24),
      GameObject(PyStr(<<"U">>), TRUE, TRUE, 30) }

\* What FindGameObjectsWithTag may return: up to MaxObjects objects.
TaggedLists == UNION { [1..n -> GameObjects] : n \in 0..MaxObjects }

(***************************************************************************)
(* int(x) and frame_number / fps                                           *)
(***************************************************************************)
Digits == <<"0", "1", "2", "3", "4", "5", "6", "7", "8", "9">>

IsDigit(c) == \E i \in 1..Len(Digits) : Digits[i] = c

DigitValue(c) == (CHOOSE i \in 1..Len(Digits) : Digits[i] = c) - 1

RECURSIVE DecimalValue(_)
DecimalValue(cs) ==
    IF cs = <<>> THEN 0
    ELSE DecimalValue(SubSeq(cs, 1, Len(cs) - 1)) * Len(Digits) + DigitValue(cs[Len(cs)])

\* int(v): an int is itself, a str of decimal digits is its value; None, ""
\* and a str holding anything but digits raise.
ParseInt(v) ==
    CASE v.t = "int" -> [ok |-> TRUE, n |-> v.n]
      [] v.t = "str" /\ v.s # <<>> /\ (\A i \in 1..Len(v.s) : IsDigit(v.s[i])) ->
             [ok |-> TRUE, n |-> DecimalValue(v.s)]
      [] OTHER -> [ok |-> FALSE, n |-> 0]

RECURSIVE GCD(_, _)
GCD(a, b) == IF b = 0 THEN a ELSE GCD(b, a % b)

\* Integer division in place of the real quotient.
FloorDivide(frame, f) == << frame \div f, 1 >>

\* frame / f with f a non-zero float: the real quotient, as the fraction
\* <<numerator, denominator>> in lowest terms.
Divide(frame, f) == << frame \div GCD(frame, f), f \div GCD(frame, f) >>

(***************************************************************************)
(* execute_action                                                          *)
(***************************************************************************)
\* A try block that ends before the playback time is written.
GuardedUntilFps(call) ==
    call \in { "Selection.activeObject", "playableAsset", "editorSettings.fps" }

\* The host-editor calls that sit inside the try block.
Guarded(call) ==
    call \in { "Selection.activeObject", "playableAsset", "editorSettings.fps", "time" }

Terminal == { "TimeSet", "ReportedAndStop", "Raised", "Delegated" }

Goto(p) == pc' = p /\ path' = Append(path, p)

\* A host-editor call raises: inside the try block the handler logs the
\* cause and the function returns; outside it the exception leaves
\* execute_action.
Fails(call) ==
    /\ hostCalls' = Append(hostCalls, call)
    /\ failed' = call
    /\ IF Guarded(call)
       THEN /\ errors' = Append(errors, [kind |-> "exception", object |-> PyNone,
                                         tag |-> PyNone, cause |-> call])
            /\ raised' = raised
            /\ Goto("ReportedAndStop")
       ELSE /\ errors' = errors
            /\ raised' = call
            /\ Goto("Raised")

\* Every action taken for jump_to_frame.
IsJumpAlways(nm) == TRUE

\* if name == "jump_to_frame":
IsJump(nm) == nm = "jump_to_frame"

\* else: super(UnityActions, self).execute_action(name, params, sg_data)
Delegate ==
    /\ pc = "Idle"
    /\ \E i \in 1..Len(action_instances) :
          /\ ~IsJump(action_instances[i].name)
          /\ name' = action_instances[i].name
          /\ params' = action_instances[i].params
          /\ baseExecuted' = Append(baseExecuted,
                 <<action_instances[i].name, action_instances[i].params, sg_data>>)
    /\ Goto("Delegated")
    /\ UNCHANGED << genVars, frame_number, game_objects, main_director, timeline,
                    fps, openedScene, activeObject, directorTime, hostCalls,
                    errors, failed, raised >>

\* frame_number = int(metadata['frame_number']): a missing key raises
\* KeyError, an unparseable value ValueError or TypeError, and nothing here
\* catches either.
ParseFrameNumber ==
    /\ pc = "Idle"
    /\ \E i \in 1..Len(action_instances) :
          /\ IsJump(action_instances[i].name)
          /\ name' = action_instances[i].name
          /\ params' = action_instances[i].params
          /\ LET ps == action_instances[i].params
                 r == IF "frame_number" \in DOMAIN ps
                      THEN ParseInt(ps["frame_number"])
                      ELSE [ok |-> FALSE, n |-> 0]
             IN  IF r.ok
                 THEN /\ frame_number' = r.n
                      /\ UNCHANGED << failed, raised >>
                      /\ Goto("Parsed")
                 ELSE /\ frame_number' = frame_number
                      /\ failed' = "int"
                      /\ raised' = "int"
                      /\ Goto("Raised")
    /\ UNCHANGED << genVars, game_objects, main_director, timeline, fps,
                    openedScene, activeObject, directorTime, hostCalls, errors,
                    baseExecuted >>

\* EditorSceneManager.OpenScene(metadata.get('scene_path'))
OpenScene ==
    /\ pc = "Parsed"
    /\ \/ /\ hostCalls' = Append(hostCalls, "OpenScene")
          /\ openedScene' = Get(params, "scene_path")
          /\ Goto("SceneOpened")
          /\ UNCHANGED << errors, failed, raised >>
       \/ Fails("OpenScene") /\ UNCHANGED openedScene
    /\ UNCHANGED << genVars, name, params, frame_number, game_objects,
                    main_director, timeline, fps, activeObject, directorTime,
                    baseExecuted >>

\* EditorApplication.ExecuteMenuItem("Window/Sequencing/Timeline")
ExecuteMenuItem ==
    /\ pc = "SceneOpened"
    /\ \/ /\ hostCalls' = Append(hostCalls, "ExecuteMenuItem")
          /\ Goto("PanelShown")
          /\ UNCHANGED << errors, failed, raised >>
       \/ Fails("ExecuteMenuItem")
    /\ UNCHANGED << genVars, name, params, frame_number, game_objects,
                    main_director, timeline, fps, openedScene, activeObject,
                    directorTime, baseExecuted >>

\* game_objects = GameObject.FindGameObjectsWithTag(params['main_timeline_tag'])
FindGameObjectsWithTag ==
    /\ pc = "PanelShown"
    /\ \/ /\ hostCalls' = Append(hostCalls, "FindGameObjectsWithTag")
          /\ \E objs \in TaggedLists :
                /\ game_objects' = objs
                /\ directorTime' = IF objs = <<>> THEN directorTime ELSE objs[1].time
          /\ Goto("Searched")
          /\ UNCHANGED << errors, failed, raised >>
       \/ Fails("FindGameObjectsWithTag") /\ UNCHANGED << game_objects, directorTime >>
    /\ UNCHANGED << genVars, name, params, frame_number, main_director, timeline,
                    fps, openedScene, activeObject, baseExecuted >>

\* if game_objects: main_director = game_objects[0].GetComponent(PlayableDirector)
GetComponent ==
    /\ pc = "Searched"
    /\ IF game_objects = <<>>
       THEN /\ Goto("DirectorMissing")
            /\ UNCHANGED << main_director, hostCalls, errors, failed, raised >>
       ELSE \/ /\ hostCalls' = Append(hostCalls, "GetComponent")
               /\ IF game_objects[1].director
                  THEN main_director' = 1 /\ Goto("DirectorFound")
                  ELSE main_director' = 0 /\ Goto("DirectorMissing")
               /\ UNCHANGED << errors, failed, raised >>
            \/ Fails("GetComponent") /\ UNCHANGED main_director
    /\ UNCHANGED << genVars, name, params, frame_number, game_objects, timeline,
                    fps, openedScene, activeObject, directorTime, baseExecuted >>

\* UnityEditor.Selection.activeObject = main_director
SelectDirector ==
    /\ pc = "DirectorFound"
    /\ \/ /\ hostCalls' = Append(hostCalls, "Selection.activeObject")
          /\ activeObject' = main_director
          /\ Goto("Selected")
          /\ UNCHANGED << errors, failed, raised >>
       \/ Fails("Selection.activeObject") /\ UNCHANGED activeObject
    /\ UNCHANGED << genVars, name, params, frame_number, game_objects,
                    main_director, timeline, fps, openedScene, directorTime,
                    baseExecuted >>

\* timeline = main_director.playableAsset; if timeline: ... else: ...
ReadPlayableAsset ==
    /\ pc = "Selected"
    /\ \/ /\ hostCalls' = Append(hostCalls, "playableAsset")
          /\ timeline' = game_objects[main_director].asset
          /\ IF game_objects[main_director].asset
             THEN Goto("TimelineAssigned")
             ELSE Goto("TimelineMissing")
          /\ UNCHANGED << errors, failed, raised >>
       \/ Fails("playableAsset") /\ UNCHANGED timeline
    /\ UNCHANGED << genVars, name, params, frame_number, game_objects,
                    main_director, fps, openedScene, activeObject, directorTime,
                    baseExecuted >>

\* fps = timeline.editorSettings.fps
ReadFps ==
    /\ pc = "TimelineAssigned"
    /\ \/ /\ hostCalls' = Append(hostCalls, "editorSettings.fps")
          /\ fps' = game_objects[main_director].fps
          /\ Goto("FpsRead")
          /\ UNCHANGED << errors, failed, raised >>
       \/ Fails("editorSettings.fps") /\ UNCHANGED fps
    /\ UNCHANGED << genVars, name, params, frame_number, game_objects,
                    main_director, timeline, openedScene, activeObject,
                    directorTime, baseExecuted >>

\* main_director.time = frame_number / fps; dividing by 0.0 raises
\* ZeroDivisionError before the host is called, inside the try block.
SetTime ==
    /\ pc = "FpsRead"
    /\ IF fps = 0
       THEN /\ errors' = Append(errors, [kind |-> "exception", object |-> PyNone,
                                         tag |-> PyNone, cause |-> "ZeroDivisionError"])
            /\ failed' = "ZeroDivisionError"
            /\ Goto("ReportedAndStop")
            /\ UNCHANGED << directorTime, hostCalls, raised >>
       ELSE \/ /\ hostCalls' = Append(hostCalls, "time")
               /\ directorTime' = Divide(frame_number, fps)
               /\ Goto("TimeSet")
               /\ UNCHANGED << errors, failed, raised >>
            \/ Fails("time") /\ UNCHANGED directorTime
    /\ UNCHANGED << genVars, name, params, frame_number, game_objects,
                    main_director, timeline, fps, openedScene, activeObject,
                    baseExecuted >>

\* else: app.logger.error('... The "{}" PlayableDirector does not have a valid
\* Playable Asset assigned.'.format(game_objects[0].name))
\* The last tagged object named in place of the first.
LastObject(objs) == objs[Len(objs)].name

\* game_objects[0].name
OffendingObject(objs) == objs[1].name

LogTimelineMissing ==
    /\ pc = "TimelineMissing"
    /\ errors' = Append(errors, [kind |-> "no_playable_asset",
                                 object |-> OffendingObject(game_objects),
                                 tag |-> PyNone, cause |-> ""])
    /\ Goto("ReportedAndStop")
    /\ UNCHANGED << genVars, name, params, frame_number, game_objects,
                    main_director, timeline, fps, openedScene, activeObject,
                    directorTime, hostCalls, baseExecuted, failed, raised >>

\* else: app.logger.error('... please choose a PlayableDirector and tag it
\* with "{}".'.format(params['main_timeline_tag']))
LogNoDirector ==
    /\ pc = "DirectorMissing"
    /\ errors' = Append(errors, [kind |-> "no_director", object |-> PyNone,
                                 tag |-> params["main_timeline_tag"], cause |-> ""])
    /\ Goto("ReportedAndStop")
    /\ UNCHANGED << genVars, name, params, frame_number, game_objects,
                    main_director, timeline, fps, openedScene, activeObject,
                    directorTime, hostCalls, baseExecuted, failed, raised >>

\* The state before the panel has asked for an entity's actions.
Init ==
    /\ sg_given = [type |-> "Version", id |-> 1]
    /\ sg_data = sg_given
    /\ actions_given = <<>>
    /\ actions = <<>>
    /\ ui_area = "main"
    /\ settings = PyNone
    /\ resolved = [none |-> TRUE, d |-> EmptyDict]
    /\ metadata = resolved
    /\ relProject = FALSE
    /\ relScene = FALSE
    /\ baseResult = <<>>
    /\ action_instances = <<>>
    /\ resolverCalls = <<>>
    /\ pc = "NoMenu"
    /\ path = <<>>
    /\ name = ""
    /\ params = EmptyDict
    /\ frame_number = 0
    /\ game_objects = <<>>
    /\ main_director = 0
    /\ timeline = FALSE
    /\ fps = 0
    /\ openedScene = PyNone
    /\ activeObject = 0
    /\ directorTime = InitialTime
    /\ hostCalls = <<>>
    /\ errors = <<>>
    /\ baseExecuted = <<>>
    /\ failed = ""
    /\ raised = ""

\* Neither hook keeps anything between calls: what a call leaves behind is
\* dropped with the menu it served.
Forget ==
    /\ sg_given' = [type |-> "Version", id |-> 1]
    /\ sg_data' = sg_given'
    /\ actions_given' = <<>>
    /\ actions' = <<>>
    /\ ui_area' = "main"
    /\ settings' = PyNone
    /\ resolved' = [none |-> TRUE, d |-> EmptyDict]
    /\ metadata' = resolved'
    /\ relProject' = FALSE
    /\ relScene' = FALSE
    /\ baseResult' = <<>>
    /\ action_instances' = <<>>
    /\ resolverCalls' = <<>>
    /\ pc' = "NoMenu"
    /\ path' = <<>>
    /\ name' = ""
    /\ params' = EmptyDict
    /\ frame_number' = 0
    /\ game_objects' = <<>>
    /\ main_director' = 0
    /\ timeline' = FALSE
    /\ fps' = 0
    /\ openedScene' = PyNone
    /\ activeObject' = 0
    /\ directorTime' = InitialTime
    /\ hostCalls' = <<>>
    /\ errors' = <<>>
    /\ baseExecuted' = <<>>
    /\ failed' = ""
    /\ raised' = ""

\* execute_action is over (returned or raised): the menu closes.
Finish == pc \in Terminal /\ Forget

\* The user closes the menu without choosing an action.
Dismiss == pc = "Idle" /\ Forget

(***************************************************************************)
(* The specification                                                       *)
(***************************************************************************)
Next ==
    \/ GenerateActions
    \/ Delegate
    \/ ParseFrameNumber
    \/ OpenScene
    \/ ExecuteMenuItem
    \/ FindGameObjectsWithTag
    \/ GetComponent
    \/ SelectDirector
    \/ ReadPlayableAsset
    \/ ReadFps
    \/ SetTime
    \/ LogTimelineMissing
    \/ LogNoDirector
    \/ Finish
    \/ Dismiss

Spec == Init /\ [][Next]_vars

(***************************************************************************)
(* Properties                                                              *)
(***************************************************************************)
\* generate_actions has returned and its menu is still there.
MenuBuilt == pc # "NoMenu"

InPath(p) == \E i \in 1..Len(path) : path[i] = p

\* The five eligibility conditions and the request, stated on what the call
\* was given.
JumpRequested == \E i \in DOMAIN actions_given : actions_given[i] = "jump_to_frame"

TagConfigured == settings.t = "str" /\ Len(settings.s) > 0

MetadataReturned == resolved.none = FALSE /\ Cardinality(DOMAIN resolved.d) > 0

FrameNumberHeld ==
    /\ "frame_number" \in DOMAIN resolved.d
    /\ resolved.d["frame_number"] \notin { PyNone, PyInt(0), PyStr(<<>>) }

ChecksPass ==
    TagConfigured /\ MetadataReturned /\ relProject /\ relScene /\ FrameNumberHeld

\* C1: when jump_to_frame is requested and all five checks pass, the list
\* returned is the base list with exactly one descriptor appended, named
\* "jump_to_frame", with group and caption "Jump to Frame", whose params hold
\* the resolved metadata and main_timeline_tag equal to the configured value
\* (which replaces a main_timeline_tag the resolver may have supplied).
C1_EligibleAppendsOneDescriptor ==
    (MenuBuilt /\ JumpRequested /\ ChecksPass) =>
        /\ Len(action_instances) = Len(baseResult) + 1
        /\ SubSeq(action_instances, 1, Len(baseResult)) = baseResult
        /\ LET d == action_instances[Len(action_instances)]
           IN  /\ d.name = "jump_to_frame"
               /\ d.group = "Jump to Frame"
               /\ d.caption = "Jump to Frame"
               /\ DOMAIN resolved.d \subseteq DOMAIN d.params
               /\ \A k \in DOMAIN resolved.d \ {"main_timeline_tag"} :
                      d.params[k] = resolved.d[k]
               /\ "main_timeline_tag" \in DOMAIN d.params
               /\ d.params["main_timeline_tag"] = settings

C1_Witness ==
    /\ pc = "Idle" /\ JumpRequested /\ ChecksPass
    /\ Len(baseResult) = 2
    /\ "main_timeline_tag" \in DOMAIN resolved.d
    /\ Len(action_instances) = 3

\* C2: when any of the five checks fails, the list returned is the base list
\* exactly, whichever check fails and whatever the others give.
C2_IneligibleReturnsBase ==
    (MenuBuilt /\ ~ChecksPass) =>
        /\ action_instances = baseResult
        /\ \A i \in 1..Len(action_instances) :
               action_instances[i].name # "jump_to_frame"

C2_Witness ==
    /\ pc = "Idle" /\ JumpRequested
    /\ TagConfigured /\ MetadataReturned /\ relProject /\ relScene
    /\ ~FrameNumberHeld
    /\ "frame_number" \in DOMAIN resolved.d
    /\ Len(baseResult) = 1
    /\ action_instances = baseResult

\* C3: when "jump_to_frame" is not among the requested names, the list
\* returned is the base list and no function of the metadata resolver is called.
C3_NotRequestedNoResolver ==
    (MenuBuilt /\ ~JumpRequested) =>
        /\ action_instances = baseResult
        /\ resolverCalls = <<>>

C3_Witness ==
    /\ pc = "Idle" /\ ~JumpRequested /\ ChecksPass
    /\ Len(actions_given) > 0
    /\ Len(baseResult) = 1
    /\ resolverCalls = <<>>

\* C9 as stated: after any call the resolver's mapping holds exactly what it
\* held when it was returned, and the entity record and the requested names
\* are unchanged.
C9_MetadataNeverMutated ==
    MenuBuilt => metadata = resolved /\ sg_data = sg_given /\ actions = actions_given

\* C9 amended: generate_actions changes the resolver's mapping only when it
\* appends the jump_to_frame descriptor, and then only by setting
\* main_timeline_tag to the configured value in the mapping itself, which is
\* the descriptor's params; every other key keeps its value and no other key
\* appears; the entity record and the requested names are never changed.
C9_OnlyTagSetInPlace ==
    MenuBuilt =>
        /\ sg_data = sg_given
        /\ actions = actions_given
        /\ metadata.none = resolved.none
        /\ DOMAIN resolved.d \subseteq DOMAIN metadata.d
        /\ DOMAIN metadata.d \subseteq DOMAIN resolved.d \cup {"main_timeline_tag"}
        /\ \A k \in DOMAIN resolved.d \ {"main_timeline_tag"} :
               metadata.d[k] = resolved.d[k]
        /\ (metadata # resolved) =>
               /\ JumpRequested /\ ChecksPass
               /\ metadata.d["main_timeline_tag"] = settings
        /\ (JumpRequested /\ ChecksPass) =>
               /\ metadata.d["main_timeline_tag"] = settings
               /\ action_instances[Len(action_instances)].params = metadata.d

C9_Witness ==
    /\ pc = "Idle"
    /\ metadata # resolved
    /\ "main_timeline_tag" \notin DOMAIN resolved.d
    /\ "scene_path" \in DOMAIN resolved.d

\* The executor is in a call, or has just ended one.
InCall == pc \notin { "NoMenu", "Idle" }

NoHostEffect ==
    /\ hostCalls = <<>>
    /\ openedScene = PyNone
    /\ activeObject = 0
    /\ directorTime = InitialTime

\* C4: for an action name other than "jump_to_frame", execute_action calls the
\* base executor exactly once, with the name, params and entity it received,
\* and makes no host-editor call of its own.
C4_OtherNamesDelegated ==
    (InCall /\ name # "jump_to_frame") =>
        /\ pc = "Delegated"
        /\ baseExecuted = << <<name, params, sg_data>> >>
        /\ \E i \in 1..Len(action_instances) :
               action_instances[i].name = name /\ action_instances[i].params = params
        /\ NoHostEffect
        /\ errors = <<>>
        /\ raised = ""

C4_Witness ==
    /\ pc = "Delegated"
    /\ name = "add_to_playlist"
    /\ Len(baseExecuted) = 1
    /\ Len(action_instances) = 3

\* The index of a call in hostCalls, 0 when it was not made.
CallIndex(call) ==
    IF \E i \in 1..Len(hostCalls) : hostCalls[i] = call
    THEN CHOOSE i \in 1..Len(hostCalls) : hostCalls[i] = call
    ELSE 0

\* The frame number the params carry, read off the value itself.
FrameOfParams ==
    IF params["frame_number"] = PyStr(<<"4", "8">>) THEN 48
    ELSE params["frame_number"].n

\* C5: a jump_to_frame that sets the time opened the scene at
\* params.scene_path before it looked the director up, and leaves the
\* director's time equal to frame_number / fps as a real number, fps being
\* the timeline asset's; 48 at 24 fps gives 2.0.
C5_TimeIsFrameOverFps ==
    (pc = "TimeSet") =>
        /\ hostCalls[1] = "OpenScene"
        /\ openedScene = Get(params, "scene_path")
        /\ CallIndex("OpenScene") < CallIndex("FindGameObjectsWithTag")
        /\ CallIndex("FindGameObjectsWithTag") < CallIndex("GetComponent")
        /\ game_objects[1].fps > 0
        /\ directorTime[2] > 0
        /\ directorTime[1] * game_objects[1].fps = FrameOfParams * directorTime[2]
        /\ (FrameOfParams = 48 /\ game_objects[1].fps = 24) => directorTime = <<2, 1>>

C5_Witness ==
    /\ pc = "TimeSet"
    /\ params["frame_number"] = PyStr(<<"4", "8">>)
    /\ fps = 24
    /\ directorTime = <<2, 1>>
    /\ failed = ""

\* C6: when the main director has no playable asset, exactly one error, naming
\* the tagged object, is logged, the playback time stays as it was and nothing
\* is raised; when no main director is found, exactly one error of another
\* kind, naming the configured tag, is logged, neither the selection nor the
\* playback time changes and nothing is raised.
C6_MissingAssetOrDirectorReported ==
    /\ (pc = "TimelineMissing" \/ pc = "DirectorMissing") => errors = <<>>
    /\ (pc \in Terminal /\ InPath("TimelineMissing")) =>
           /\ pc = "ReportedAndStop"
           /\ Len(errors) = 1
           /\ errors[1].kind = "no_playable_asset"
           /\ errors[1].object = game_objects[1].name
           /\ directorTime = game_objects[1].time
           /\ CallIndex("time") = 0
           /\ raised = ""
    /\ (pc \in Terminal /\ InPath("DirectorMissing")) =>
           /\ pc = "ReportedAndStop"
           /\ Len(errors) = 1
           /\ errors[1].kind = "no_director"
           /\ errors[1].tag = settings
           /\ errors[1].tag = params["main_timeline_tag"]
           /\ activeObject = 0
           /\ CallIndex("Selection.activeObject") = 0
           /\ directorTime = InitialTime
           /\ CallIndex("time") = 0
           /\ raised = ""

C6_Witness ==
    /\ pc = "ReportedAndStop"
    /\ InPath("TimelineMissing")
    /\ Len(game_objects) = 2
    /\ game_objects[1].name # game_objects[2].name
    /\ Len(errors) = 1

\* What can fail once the main director has been found.
DirectorSteps ==
    { "Selection.activeObject", "playableAsset", "editorSettings.fps", "time",
      "ZeroDivisionError" }

NoCallTwice ==
    \A i, j \in 1..Len(hostCalls) : hostCalls[i] = hostCalls[j] => i = j

\* C7: once the main director has been found, a failure while selecting it,
\* reading its asset or fps, or writing its time is caught in the executor and
\* logged as one error carrying the cause; the call returns normally and no
\* step is made twice.
C7_FailuresAfterDirectorCaught ==
    /\ InPath("DirectorFound") => (raised = "" /\ pc # "Raised" /\ NoCallTwice)
    /\ (failed \in DirectorSteps) =>
           /\ InPath("DirectorFound")
           /\ pc = "ReportedAndStop"
           /\ raised = ""
           /\ Len(errors) = 1
           /\ errors[1].kind = "exception"
           /\ errors[1].cause = failed
           /\ NoCallTwice

C7_Witness ==
    /\ pc = "ReportedAndStop"
    /\ failed = "time"
    /\ InPath("FpsRead")
    /\ Len(errors) = 1

\* C8 as stated: no failure of a host-editor call made by the jump_to_frame
\* action leaves execute_action; every one ends in a logged message and a
\* normal return.
C8_NoHostFailurePropagates ==
    (name = "jump_to_frame" /\ failed \notin { "", "int" }) =>
        /\ raised = ""
        /\ Len(errors) > 0

\* C10 as stated: an execution that got past the parsing and the opening of
\* the scene ends in TimeSet or in ReportedAndStop, writes the playback time
\* only when it ends in TimeSet, logs an error exactly when it does not end in
\* TimeSet, and enters no state twice.
C10_StateMachine ==
    InPath("SceneOpened") =>
        /\ pc \in Terminal => pc \in { "TimeSet", "ReportedAndStop" }
        /\ pc \in Terminal => ((Len(errors) > 0) <=> (pc # "TimeSet"))
        /\ CallIndex("time") > 0 /\ failed = "" => pc = "TimeSet"
        /\ directorTime # InitialTime => pc = "TimeSet"
        /\ \A i, j \in 1..Len(path) : path[i] = path[j] => i = j

====
